---- MODULE Spec2Model ----
(***************************************************************************)
(* Model of GCMS content creation                                          *)
(* (src/src/core/content_service/src/crud/create.ts).                      *)
(*                                                                         *)
(* Each call of create is a process.  Its synchronous prefix (type check,  *)
(* record construction, owner id check) is one step; every await and the   *)
(* insertOne callback is a suspension point at which other calls run.      *)
(* The promise returned by create settles at most once: the first resolve  *)
(* or reject wins, later ones are ignored, and an exception thrown in the  *)
(* async executor settles nothing.                                         *)
(*                                                                         *)
(* The GraphQL registry (src/src/api/graphql.ts) is modelled beside it:    *)
(* the module-level schemas array and root_resolver object, and the        *)
(* middleware that lockGraphSQL mounts on /graphql.                        *)
(***************************************************************************)
EXTENDS Integers, Sequences, FiniteSets, TLC

\* Number of create calls issued in one behaviour.
MaxCalls == 2

Calls == 1..MaxCalls

Undefined == "undefined"

----------------------------------------------------------------------------
\* Strings are sequences of characters, so that toLowerCase is computed.

post == <<"p", "o", "s", "t">>
Post == <<"P", "o", "s", "t">>
comment == <<"c", "o", "m", "m", "e", "n", "t">>

TypeStrings == {post, Post, comment}

LowerChar(ch) == IF ch = "P" THEN "p" ELSE ch

ToLowerCase(s) == [i \in DOMAIN s |-> LowerChar(s[i])]

\* Array.prototype.includes: strict equality against each element.
Includes(arr, x) == \E i \in DOMAIN arr : arr[i] = x

\* Addon descriptors (AddonInterface: name, id, types), as loaded from the
\* addon's json.
AddonSet ==
    { [name |-> "blog", id |-> "a1", types |-> <<post>>],
      [name |-> "wiki", id |-> "a2", types |-> <<Post>>] }

Payloads == {"hi"}

----------------------------------------------------------------------------
\* Identifiers.  A well-formed id is a hex string; ObjectId parses hex
\* without regard to letter case, so "U1" and "u1" are the same ObjectId.

Users == {"u1", "u2"}

WellFormedIds == {"u1", "u2", "u9"}

OwnerArgs == WellFormedIds \cup {"not-a-valid-id", Undefined}

ReturnErrorArgs == {"true", "false"}

ObjectIdIsValid(raw) == raw \in WellFormedIds

ObjectId(raw) == IF raw = "U1" THEN "u1" ELSE raw

\* new ObjectId(): a fresh id, unique to the call that generates it.
NewObjectId(c) == c

----------------------------------------------------------------------------
\* locals.KEYS
KEYS ==
    [INVALID_TYPE |-> "INVALID_TYPE", INVALID_ID |-> "INVALID_ID",
     DB_ERROR |-> "DB_ERROR"]

\* Values a promise settles with, tagged by their JavaScript type.
BoolFalse == [t |-> "boolean", b |-> FALSE]
ErrorValue(err) == [t |-> "error", err |-> err]
ContentValue(obj) == [t |-> "content", obj |-> obj]

Pending == [state |-> "pending", value |-> [t |-> "none"]]

\* resolve / reject of the promise created on line 30: a settled promise
\* ignores every later resolve and reject.
Resolve(p, v) == IF p.state = "pending" THEN [state |-> "fulfilled", value |-> v] ELSE p
Reject(p, v) == IF p.state = "pending" THEN [state |-> "rejected", value |-> v] ELSE p

----------------------------------------------------------------------------
\* graphql.ts: inputs of expandGQL.

\* Number of expandGQL calls and of lockGraphSQL calls in one behaviour.
MaxExpand == 3
MaxLock == 2

\* The schema files read on line 22, named by their contents.
SchemaFiles == {"type Query { hello: String }", "type Query { posts: [Post] }"}

\* readFileSync(join(path, file_name), 'utf8')
ReadFileSync(file) == file

ResolverNames == {"hello", "posts"}

\* An object without the property n reads as undefined at n.
NoResolvers == [n \in ResolverNames |-> Undefined]

\* The resolver objects passed to expandGQL.
ResolverArgs ==
    { [NoResolvers EXCEPT !["hello"] = "helloA"],
      [NoResolvers EXCEPT !["hello"] = "helloB"],
      [NoResolvers EXCEPT !["posts"] = "postsA"] }

VARIABLES
    addon,              \* the descriptor of the addon that calls create
    pc,                 \* pc[c]: where call c is suspended
    args,               \* args[c]: the arguments call c was issued with
    pushOBJ,            \* pushOBJ[c]: the record built by call c
    update_arg,         \* update_arg[c]: the content list passed to user.update
    promise,            \* promise[c]: the promise create returned for call c
    failures,           \* failures[c]: the failure branches call c has taken
    content_collection, \* the content collection: the inserted documents
    users               \* the user store: users[u].content is u's owned list

\* graphql.ts
VARIABLES
    schemas,            \* the schemas array (line 10)
    root_resolver,      \* the root_resolver object (line 11): name -> resolver
    middleware          \* the handlers mounted on /graphql, in mounting order

gqlVars == <<schemas, root_resolver, middleware>>

vars == <<addon, pc, args, pushOBJ, update_arg, promise, failures,
          content_collection, users, gqlVars>>

NoArgs == [addon |-> [name |-> "", id |-> "", types |-> <<>>], type |-> <<>>,
           content |-> "", owner |-> Undefined, returnError |-> Undefined]
NoObj == [_id |-> 0, addon_id |-> "", type |-> <<>>, history |-> <<>>,
          content |-> "", owner |-> Undefined]

Init ==
    /\ addon \in AddonSet
    /\ pc = [c \in Calls |-> "idle"]
    /\ args = [c \in Calls |-> NoArgs]
    /\ pushOBJ = [c \in Calls |-> NoObj]
    /\ update_arg = [c \in Calls |-> <<>>]
    /\ promise = [c \in Calls |-> Pending]
    /\ failures = [c \in Calls |-> {}]
    /\ content_collection = {}
    /\ users = [u \in Users |-> [content |-> <<>>]]
    /\ schemas = << >>
    /\ root_resolver = NoResolvers
    /\ middleware = << >>

----------------------------------------------------------------------------
\* The user store collaborator (user_service).

\* user.get(id, {content: 1}): the matching user documents, projected on
\* their content list, as an array; an empty array, false or an error
\* object when no user matches.
UserGetResults(id) ==
    IF id \in Users
    THEN { [t |-> "array", items |-> << [_id |-> id, content |-> users[id].content] >>] }
    ELSE { [t |-> "array", items |-> << >>],
           [t |-> "boolean", b |-> FALSE],
           [t |-> "error", message |-> "user lookup failed"] }

\* The values user.update rejects with: a structured error (code 0 or 1)
\* when returnError is true, the boolean false otherwise.
UserUpdateErrors(returnError) ==
    IF returnError = "true"
    THEN { ErrorValue([code |-> k, local_key |-> KEYS.DB_ERROR,
                       where |-> "user.update", message |-> "update failed"]) : k \in {0, 1} }
    ELSE { BoolFalse }

\* user.update(id, {content: list}): replaces the user's content list.
UserUpdate(id, list) == [users EXCEPT ![id].content = list]

----------------------------------------------------------------------------
\* create.ts

\* Line 32: the raw type string is looked up in addon.types.
TypeIsDefined(a, type) == Includes(a.types, type)

\* Lines 33-40, 56-63, 76-83, 95-101: the value a failure rejects with.
FailureValue(returnError, err) ==
    IF returnError = "true" THEN ErrorValue(err) ELSE BoolFalse

InvalidTypeError ==
    [code |-> 1, local_key |-> KEYS.INVALID_TYPE, where |-> "create.ts",
     message |-> "type is not defined in the addon"]

InvalidOwnerError ==
    [code |-> 1, local_key |-> KEYS.INVALID_ID, where |-> "create.ts",
     message |-> "owner is not a valid BSON ID"]

OwnerNotFoundError ==
    [code |-> 1, local_key |-> KEYS.INVALID_ID, where |-> "create.ts",
     message |-> "owner is not found"]

InsertError ==
    [local_key |-> KEYS.DB_ERROR, where |-> "update.ts", message |-> "insert failed"]

\* A record whose owner defaults to the addon when none is supplied.
BuildPushOBJDefaultOwner(c, type, content) ==
    [_id |-> NewObjectId(c), addon_id |-> ObjectId(addon.id),
     type |-> ToLowerCase(type), history |-> << >>,
     content |-> content.content, owner |-> ObjectId(addon.id)]

\* A record whose history starts with an entry for its own creation.
BuildPushOBJWithHistory(c, type, content) ==
    [_id |-> NewObjectId(c), addon_id |-> ObjectId(addon.id),
     type |-> ToLowerCase(type),
     history |-> << [content |-> content.content, owner |-> Undefined,
                     reason |-> "created"] >>,
     content |-> content.content, owner |-> Undefined]

\* Lines 44-50.
BuildPushOBJ(c, type, content) ==
    [_id |-> NewObjectId(c), addon_id |-> ObjectId(addon.id),
     type |-> ToLowerCase(type), history |-> << >>,
     content |-> content.content, owner |-> Undefined]

\* The owner test without its last disjunct: an empty array passes.
UserMissingNoIndexTest(ud) ==
    \/ ud.t = "boolean" /\ ud.b = FALSE
    \/ ud.t = "error"

\* Line 75: user_data === false || user_data.message !== undefined
\*          || user_data[0] === undefined
UserMissing(ud) ==
    \/ ud.t = "boolean" /\ ud.b = FALSE
    \/ ud.t = "error"
    \/ ud.t = "array" /\ Len(ud.items) = 0

\* Line 87: user_data.content || [] -- user_data is the array user.get
\* returned; an array has no content property, so the read is undefined.
UserDataContent(ud) == IF ud.t = "object" THEN ud.content ELSE << >>

\* Line 88: err.code === 0 (false.code is undefined).
ErrCodeIsZero(v) == v.t = "error" /\ "code" \in DOMAIN v.err /\ v.err.code = 0

\* A validation failure whose reject is not followed by a return: the
\* executor runs on to insertOne.
FailNoReturn(c, returnError, cause, err) ==
    /\ promise' = [promise EXCEPT ![c] = Reject(@, FailureValue(returnError, err))]
    /\ failures' = [failures EXCEPT ![c] = @ \cup {cause}]
    /\ pc' = [pc EXCEPT ![c] = "insert"]

\* Lines 33-40, 56-63, 76-83: "return reject(...)": the promise is rejected
\* and the executor ends.
Fail(c, returnError, cause, err) ==
    /\ promise' = [promise EXCEPT ![c] = Reject(@, FailureValue(returnError, err))]
    /\ failures' = [failures EXCEPT ![c] = @ \cup {cause}]
    /\ pc' = [pc EXCEPT ![c] = "done"]

\* Lines 29-72 / 93: the synchronous prefix of a call, up to its first
\* suspension point.
Call(c, type, content, returnError) ==
    /\ pc[c] = "idle"
    /\ \A d \in Calls : d < c => pc[d] # "idle"
    /\ args' = [args EXCEPT ![c] = [addon |-> addon, type |-> type,
                                    content |-> content.content, owner |-> content.owner,
                                    returnError |-> returnError]]
    /\ IF ~TypeIsDefined(addon, type)
       THEN /\ Fail(c, returnError, "type", InvalidTypeError)
            /\ UNCHANGED pushOBJ
       ELSE IF content.owner # Undefined /\ ~ObjectIdIsValid(content.owner)
       THEN /\ Fail(c, returnError, "id", InvalidOwnerError)
            /\ pushOBJ' = [pushOBJ EXCEPT ![c] = BuildPushOBJ(c, type, content)]
       ELSE IF content.owner # Undefined
       THEN /\ pushOBJ' = [pushOBJ EXCEPT ![c] =
                              [BuildPushOBJ(c, type, content)
                                  EXCEPT !.owner = ObjectId(content.owner)]]
            /\ pc' = [pc EXCEPT ![c] = "get"]
            /\ UNCHANGED <<promise, failures>>
       ELSE /\ pushOBJ' = [pushOBJ EXCEPT ![c] = BuildPushOBJ(c, type, content)]
            /\ pc' = [pc EXCEPT ![c] = "insert"]
            /\ UNCHANGED <<promise, failures>>
    /\ UNCHANGED <<gqlVars, addon, update_arg, content_collection, users>>

\* Lines 72-87: user.get returns; the owner is checked and user.update is
\* called with the list built from user_data.
GetReturn(c) ==
    /\ pc[c] = "get"
    /\ \E ud \in UserGetResults(pushOBJ[c].owner) :
        IF UserMissing(ud)
           THEN /\ Fail(c, args[c].returnError, "user", OwnerNotFoundError)
                /\ UNCHANGED update_arg
           ELSE /\ update_arg' = [update_arg EXCEPT ![c] =
                                     Append(UserDataContent(ud), pushOBJ[c]._id)]
                /\ pc' = [pc EXCEPT ![c] = "update"]
                /\ UNCHANGED <<promise, failures>>
    /\ UNCHANGED <<gqlVars, addon, args, pushOBJ, content_collection, users>>

\* Lines 87-93: user.update succeeds; insertOne is called.
UpdateOk(c) ==
    /\ pc[c] = "update"
    /\ users' = UserUpdate(pushOBJ[c].owner, update_arg[c])
    /\ pc' = [pc EXCEPT ![c] = "insert"]
    /\ UNCHANGED <<gqlVars, addon, args, pushOBJ, update_arg, promise, failures,
                   content_collection>>

\* Lines 87-93: user.update rejects with err.  The catch handler throws
\* when err.code is 0, which ends the executor with nothing settled;
\* otherwise it resolves the promise with err and the executor goes on to
\* insertOne.
UpdateFail(c) ==
    /\ pc[c] = "update"
    /\ \E err \in UserUpdateErrors(args[c].returnError) :
        IF ErrCodeIsZero(err)
        THEN /\ pc' = [pc EXCEPT ![c] = "done"]
             /\ UNCHANGED promise
        ELSE /\ promise' = [promise EXCEPT ![c] = Resolve(@, err)]
             /\ pc' = [pc EXCEPT ![c] = "insert"]
    /\ failures' = [failures EXCEPT ![c] = @ \cup {"ledger"}]
    /\ UNCHANGED <<gqlVars, addon, args, pushOBJ, update_arg, content_collection, users>>

\* A success reported without the document having been written.
InsertOkNotStored(c) ==
    /\ pc[c] = "insert"
    /\ promise' = [promise EXCEPT ![c] = Resolve(@, ContentValue(pushOBJ[c]))]
    /\ pc' = [pc EXCEPT ![c] = "done"]
    /\ UNCHANGED <<gqlVars, addon, args, pushOBJ, update_arg, failures, users,
                   content_collection>>

\* Lines 93-106: the insertOne callback runs without an error.
InsertOk(c) ==
    /\ pc[c] = "insert"
    /\ content_collection' = content_collection \cup {pushOBJ[c]}
    /\ promise' = [promise EXCEPT ![c] = Resolve(@, ContentValue(pushOBJ[c]))]
    /\ pc' = [pc EXCEPT ![c] = "done"]
    /\ UNCHANGED <<gqlVars, addon, args, pushOBJ, update_arg, failures, users>>

\* Lines 93-102: the insertOne callback runs with an error.
InsertFail(c) ==
    /\ pc[c] = "insert"
    /\ promise' = [promise EXCEPT ![c] = Reject(@, FailureValue(args[c].returnError, InsertError))]
    /\ failures' = [failures EXCEPT ![c] = @ \cup {"insert"}]
    /\ pc' = [pc EXCEPT ![c] = "done"]
    /\ UNCHANGED <<gqlVars, addon, args, pushOBJ, update_arg, content_collection, users>>

Next ==
    \/ \E c \in Calls, type \in TypeStrings, payload \in Payloads,
          owner \in OwnerArgs, returnError \in ReturnErrorArgs :
          Call(c, type, [content |-> payload, owner |-> owner], returnError)
    \/ \E c \in Calls : GetReturn(c)
    \/ \E c \in Calls : UpdateOk(c)
    \/ \E c \in Calls : UpdateFail(c)
    \/ \E c \in Calls : InsertOk(c)
    \/ \E c \in Calls : InsertFail(c)

Spec == Init /\ [][Next]_vars

\* Calls issued one after the other: a call is issued only when no other
\* call is in flight.
NoneInFlight == \A c \in Calls : pc[c] \in {"idle", "done"}

SeqNext ==
    \/ \E c \in Calls, type \in TypeStrings, payload \in Payloads,
          owner \in OwnerArgs, returnError \in ReturnErrorArgs :
          NoneInFlight /\ Call(c, type, [content |-> payload, owner |-> owner], returnError)
    \/ \E c \in Calls : GetReturn(c)
    \/ \E c \in Calls : UpdateOk(c)
    \/ \E c \in Calls : UpdateFail(c)
    \/ \E c \in Calls : InsertOk(c)
    \/ \E c \in Calls : InsertFail(c)

SeqSpec == Init /\ [][SeqNext]_vars

----------------------------------------------------------------------------
\* The update operation of the content service (update.ts, named on line
\* 97), as the history model describes it: the content and owner a record
\* had before the mutation are appended to its history, then the new
\* content is set.  The date of the snapshot is left out: there is no clock.

\* Number of updates applied to one record.
MaxUpdates == 1

UpdatePayloads == {"edited"}

Snapshot(r, reason) == [content |-> r.content, owner |-> r.owner, reason |-> reason]

Update(r, payload, reason) ==
    /\ r \in content_collection
    /\ Len(r.history) < MaxUpdates
    /\ content_collection' =
          (content_collection \ {r}) \cup
              {[r EXCEPT !.history = Append(@, Snapshot(r, reason)), !.content = payload]}
    /\ UNCHANGED <<gqlVars, addon, pc, args, pushOBJ, update_arg, promise, failures,
                   users>>

\* Creates awaited one by one, and updates of the persisted records.
LifeNext ==
    \/ \E c \in Calls, type \in TypeStrings, payload \in Payloads,
          owner \in OwnerArgs, returnError \in ReturnErrorArgs :
          NoneInFlight /\ Call(c, type, [content |-> payload, owner |-> owner], returnError)
    \/ \E c \in Calls : GetReturn(c)
    \/ \E c \in Calls : UpdateOk(c)
    \/ \E c \in Calls : UpdateFail(c)
    \/ \E c \in Calls : InsertOk(c)
    \/ \E c \in Calls : InsertFail(c)
    \/ \E r \in content_collection, payload \in UpdatePayloads :
          Update(r, payload, "edit")

LifeSpec == Init /\ [][LifeNext]_vars

----------------------------------------------------------------------------
\* graphql.ts

createVars == <<addon, pc, args, pushOBJ, update_arg, promise, failures,
                content_collection, users>>

\* An assignment that replaces the target by the source object.
ObjectAssignReplace(target, source) == source

\* Line 25: Object.assign(target, source) copies every property of source
\* onto target; a property target already has is overwritten.
ObjectAssign(target, source) ==
    [n \in DOMAIN target |-> IF source[n] # Undefined THEN source[n] ELSE target[n]]

\* Lines 34-36: the schema object built from the type definitions the
\* array holds at the time of the call.
MakeExecutableSchema(typeDefs) == [typeDefs |-> typeDefs]

\* Lines 20-26.  Nothing tests whether lockGraphSQL has been called.
expandGQL(file_name, resolver) ==
    /\ Len(schemas) < MaxExpand
    /\ schemas' = Append(schemas, ReadFileSync(file_name))
    /\ root_resolver' = ObjectAssign(root_resolver, resolver)
    /\ UNCHANGED <<middleware, createVars>>

\* Lines 33-43: the handler holds the schema built now, and the
\* root_resolver object itself (by reference) as its rootValue.  The
\* registry is locked once it holds a schema to serve.
lockGraphSQL ==
    /\ Len(middleware) < MaxLock
    /\ Len(schemas) > 0
    /\ middleware' = Append(middleware,
                            [schema |-> MakeExecutableSchema(schemas),
                             rootValue |-> "root_resolver"])
    /\ UNCHANGED <<schemas, root_resolver, createVars>>

GQLNext ==
    \/ \E file_name \in SchemaFiles, resolver \in ResolverArgs :
          expandGQL(file_name, resolver)
    \/ lockGraphSQL

GQLSpec == Init /\ [][GQLNext]_vars

\* lockGraphSQL has been called.
Locked == Len(middleware) > 0

\* What /graphql serves: requests are answered by the handler mounted
\* first, with its schema and with the current properties of the object
\* its rootValue refers to.
ServedSchema == middleware[1].schema
ServedResolvers ==
    IF middleware[1].rootValue = "root_resolver" THEN root_resolver ELSE NoResolvers

----------------------------------------------------------------------------
\* Vocabulary of the properties.

Issued(c) == pc[c] # "idle"
Done(c) == pc[c] = "done"
Settled(c) == promise[c].state # "pending"

\* The call delivered the record it built as its success value.
Succeeded(c) == promise[c].state = "fulfilled" /\ promise[c].value.t = "content"

InList(list, x) == \E i \in DOMAIN list : list[i] = x
NoDuplicates(list) == \A i, j \in DOMAIN list : list[i] = list[j] => i = j

StoredIds == { r._id : r \in content_collection }

IsPrefix(a, b) == Len(a) <= Len(b) /\ SubSeq(b, 1, Len(a)) = a

Owned(c) == pushOBJ[c].owner # Undefined

\* The call took one of the validation failure branches.
ValidationFailed(c) == failures[c] \cap {"type", "id", "user"} # {}

\* The id generated for the call is in neither store.
NoTrace(c) ==
    /\ NewObjectId(c) \notin StoredIds
    /\ \A u \in Users : ~InList(users[u].content, NewObjectId(c))


----------------------------------------------------------------------------
\* C1: with no owner supplied and no insert failure, a finished create has
\* succeeded if and only if the lowercased type is one of the addon's
\* declared types, and the record it delivers carries the lowercased type.
C1_CaseInsensitiveType ==
    \A c \in Calls :
        (Done(c) /\ args[c].owner = Undefined /\ "insert" \notin failures[c])
            => /\ Succeeded(c) <=> Includes(args[c].addon.types, ToLowerCase(args[c].type))
               /\ Succeeded(c) => promise[c].value.obj.type = ToLowerCase(args[c].type)

\* C2: once a create whose ledger update failed has finished, it has not
\* succeeded and the content collection holds no record with its id.
C2_LedgerFailureInsertsNothing ==
    \A c \in Calls :
        (Done(c) /\ "ledger" \in failures[c])
            => /\ ~Succeeded(c)
               /\ NewObjectId(c) \notin StoredIds

\* C3: whenever no create is in flight, a record id is in a user's
\* owned-content list if and only if the content collection holds a record
\* with that id whose owner is that user.
C3_OwnershipSymmetric ==
    NoneInFlight =>
        \A u \in Users, c \in Calls :
            InList(users[u].content, NewObjectId(c))
                <=> \E r \in content_collection : r._id = NewObjectId(c) /\ r.owner = u

\* C4: when two creates for the same owner have both succeeded, the owner's
\* owned-content list contains the ids of both records.
C4_NoLostUpdates ==
    \A c, d \in Calls :
        (c # d /\ Succeeded(c) /\ Succeeded(d) /\ Owned(c)
              /\ pushOBJ[c].owner = pushOBJ[d].owner)
            => /\ InList(users[pushOBJ[c].owner].content, pushOBJ[c]._id)
               /\ InList(users[pushOBJ[c].owner].content, pushOBJ[d]._id)

\* C5: with calls issued one after the other, once a create with an owner
\* has succeeded and before the next call is issued, the owner's list holds
\* the new id, holds no id twice, and still holds the id of every earlier
\* successful create for that owner.
C5_AttachAppends ==
    \A c \in Calls :
        (Succeeded(c) /\ Owned(c) /\ \A e \in Calls : e > c => ~Issued(e))
            => LET list == users[pushOBJ[c].owner].content
               IN /\ InList(list, pushOBJ[c]._id)
                  /\ NoDuplicates(list)
                  /\ \A d \in Calls :
                        (d < c /\ Succeeded(d) /\ pushOBJ[d].owner = pushOBJ[c].owner)
                            => InList(list, pushOBJ[d]._id)

C7_DualErrorMode ==
    \A c \in Calls :
        (Settled(c) /\ failures[c] # {})
            => IF args[c].returnError = "true"
               THEN /\ promise[c].value.t = "error"
                    /\ {"code", "local_key", "where", "message"}
                           \subseteq DOMAIN promise[c].value.err
               ELSE promise[c].value = BoolFalse

\* C8: a create whose executor has run to its end, with no callback left
\* to run, has settled its promise.
C8_EveryCreateSettles ==
    \A c \in Calls : Done(c) => Settled(c)

\* C9: a create that failed validation (type, owner id, owner lookup) has
\* written nothing: its id is in no store, and the step on which it failed
\* left the content collection and every user's list unchanged.
C9_ValidationFailuresWriteNothing ==
    [][\A c \in Calls :
          ValidationFailed(c)' =>
              /\ NoTrace(c)'
              /\ pc'[c] # pc[c] => UNCHANGED <<content_collection, users>>]_vars

\* A call failed the owner lookup while the stores hold another call's
\* record and ledger entry.
C9_Witness ==
    \E c, d \in Calls :
        /\ "user" \in failures[c]
        /\ Succeeded(d) /\ Owned(d)
        /\ InList(users[pushOBJ[d].owner].content, pushOBJ[d]._id)

\* C10: with returnError true, a create whose owner matches no user is
\* rejected with an error whose kind differs from the kind reported for a
\* malformed owner id.
C10_UserNotFoundKind ==
    \A c \in Calls :
        (args[c].returnError = "true" /\ "user" \in failures[c])
            => /\ promise[c].state = "rejected"
               /\ promise[c].value.t = "error"
               /\ promise[c].value.err.local_key # InvalidOwnerError.local_key

\* C11: once lockGraphSQL has been called, no step changes the schema or
\* the resolvers that /graphql serves.
C11_LockFreezesApi ==
    [][Locked => /\ ServedSchema' = ServedSchema
                 /\ ServedResolvers' = ServedResolvers]_vars

\* C12: the type of every persisted record is one of the types declared
\* by the addon that created it.
C12_StoredTypeIsDeclared ==
    \A c \in Calls :
        pushOBJ[c] \in content_collection
            => Includes(args[c].addon.types, pushOBJ[c].type)

C14_RoundTrip ==
    \A c \in Calls :
        Succeeded(c) =>
            LET R == promise[c].value.obj
            IN \E r \in content_collection :
                  /\ r._id = R._id
                  /\ r.addon_id = R.addon_id
                  /\ r.type = R.type
                  /\ r.owner = R.owner
                  /\ r.history = R.history
                  /\ r.content = R.content

\* Two creates have succeeded, one with an owner and one without.
C14_Witness ==
    \E c, d \in Calls :
        /\ Succeeded(c) /\ Owned(c)
        /\ Succeeded(d) /\ ~Owned(d)

\* C15: in every reachable state, every id in a user's owned-content list
\* is the id of a record persisted in the content collection.
C15_NoPartialState ==
    \A u \in Users :
        \A i \in DOMAIN users[u].content : users[u].content[i] \in StoredIds

C17_NoOwnerNoUserAccess ==
    [][\A c \in Calls :
          (args'[c].owner = Undefined /\ pc'[c] # pc[c])
              => /\ pc'[c] \notin {"get", "update"}
                 /\ users' = users
                 /\ \A r \in content_collection' :
                       r._id = NewObjectId(c) => r.owner = Undefined]_vars

\* A create without an owner has succeeded while a user owns a record.
C17_Witness ==
    \E c \in Calls, u \in Users :
        /\ args[c].owner = Undefined /\ Succeeded(c)
        /\ users[u].content # << >>

\* C18 as stated: before the lock, every expandGQL call appends exactly
\* one schema to the array and leaves every resolver registered by an
\* earlier call as it was.
C18_NothingReplaced ==
    [][(~Locked /\ schemas' # schemas) =>
          /\ \E f \in SchemaFiles : schemas' = Append(schemas, ReadFileSync(f))
          /\ \A n \in ResolverNames :
                root_resolver[n] # Undefined => root_resolver'[n] = root_resolver[n]]_vars

\* C18 as amended: before the lock, every expandGQL call appends exactly
\* one schema to the array, keeping the earlier schemas in place, and no
\* resolver name registered earlier is removed; a name the call registers
\* again is served by the call's resolver from then on, every other name
\* keeps its resolver.
C18_AppendsAndLastWins ==
    [][(~Locked /\ schemas' # schemas) =>
          \E f \in SchemaFiles, resolver \in ResolverArgs :
              /\ schemas' = Append(schemas, ReadFileSync(f))
              /\ \A n \in ResolverNames :
                    /\ root_resolver[n] # Undefined => root_resolver'[n] # Undefined
                    /\ root_resolver'[n] =
                          IF resolver[n] # Undefined THEN resolver[n] ELSE root_resolver[n]]_vars

\* Before the lock, several schemas and resolvers under both names have
\* been registered.
C18_Witness ==
    /\ ~Locked
    /\ Len(schemas) >= 2
    /\ schemas[1] # schemas[2]
    /\ \A n \in ResolverNames : root_resolver[n] # Undefined

====
